---- MODULE Spec2Model ----
(***************************************************************************)
(* State-machine model of src/src/partition/segment_iterator.rs:           *)
(* SegmentIterator::new (query resolution, posting-list collection, entry  *)
(* decoding, timestamp filter) and the Iterator protocol entry()/next().   *)
(*                                                                         *)
(* One behaviour is one call of SegmentIterator::new followed, when it     *)
(* returns Ok, by any number of entry()/next() calls on the iterator.      *)
(* The results of the external collaborators (term-index file, Levenshtein *)
(* builder, key-value store, posting-list decoder, segment file) are       *)
(* chosen when the code calls them.                                        *)
(***************************************************************************)
EXTENDS Integers, Sequences, FiniteSets, TLC

VARIABLES
    pc,             \* position in new(), or "iter" / "err" / "panicked"
    query,          \* parameter query
    start_ts,       \* parameter start_ts
    end_ts,         \* parameter end_ts
    terms,          \* indices_stream: the terms the fuzzy search yielded
    term_pos,       \* position of the `for index in indices_stream` loop
    entry_indices,  \* local entry_indices: Vec<u64>
    scan_pos,       \* position of the `for line_offset in entry_indices` loop
    buffer,         \* local buffer: Vec<u8>, the whole segment file
    seen_set,       \* local seen_set: HashSet<usize>
    entries,        \* local entries, then SegmentIterator.entries
    current_index,  \* SegmentIterator.current_index
    ret,            \* what the last entry()/next() call returned
    index_opened,   \* history: Set::from_path has been called
    lookups,        \* history: the keys passed to store.get, in order
    src_offsets,    \* history: for each pushed entry, the offset it was decoded at
    decoded,        \* history: the offsets decoded, in order
    failed,         \* history: the fallible step that reported an error
    absent,         \* history: store.get reported a key absent
    next_calls      \* history: number of next() calls made

vars == <<pc, query, start_ts, end_ts, terms, term_pos, entry_indices, scan_pos,
          buffer, seen_set, entries, current_index, ret, index_opened, lookups,
          src_offsets, decoded, failed, absent, next_calls>>

-----------------------------------------------------------------------------
(* Bounds of the model *)

\* longest stream of fuzzy-matched terms
MaxTerms == 2
\* longest posting list
MaxListLen == 2
\* largest segment buffer, in 8-byte words
MaxWords == 4
\* next() is not called once current_index has reached this value
MaxIndex == 5
\* width of usize in the model (the targets have 16, 32 or 64)
UsizeBits == 16

-----------------------------------------------------------------------------
(* Inputs *)

\* the terms of the finite-state index, in the (lexicographic) order a stream yields
IndexTerms == <<"eror", "err">>

\* the queries tried: the empty query and a fuzzy one
Queries == {"", "eror"}

\* values of the 8-byte words segment buffers are built from
WordVals == {0, 8, 16}

\* (start_ts, end_ts) pairs tried
TsArgs == {<<0, 0>>, <<8, 8>>, <<16, 8>>}

\* byte offsets posting lists may hold: word-aligned, up to the buffer's largest end
Offsets == {8 * k : k \in 0..MaxWords}

RECURSIVE Ascending(_)
Ascending(s) ==
    IF Len(s) <= 1 THEN TRUE
    ELSE s[1] < s[2] /\ Ascending(Tail(s))

\* posting lists as stored: unique offsets, ascending
PostingLists ==
    {l \in UNION {[1..n -> Offsets] : n \in 0..MaxListLen} : Ascending(l)}

\* the streams a fuzzy search can yield: subsequences of IndexTerms
Streams ==
    LET Pos == 1..Len(IndexTerms)
        Idx == {l \in UNION {[1..n -> Pos] : n \in 0..MaxTerms} : Ascending(l)}
    IN  {[i \in 1..Len(l) |-> IndexTerms[l[i]]] : l \in Idx}

\* the 8 bytes that encode w (w < 65536)
WordBytes(w) ==
    [i \in 1..8 |-> IF i = 8 THEN w % 256 ELSE IF i = 7 THEN (w \div 256) % 256 ELSE 0]

RECURSIVE Flatten(_)
Flatten(ws) ==
    IF ws = <<>> THEN <<>> ELSE WordBytes(Head(ws)) \o Flatten(Tail(ws))

\* the segment files tried
Buffers ==
    {Flatten(ws) : ws \in UNION {[1..n -> WordVals] : n \in 0..MaxWords}}

\* what store.get followed by decode_posting_list can give
GetResults ==
    {[kind |-> k, list |-> <<>>] : k \in {"err", "none", "corrupt"}}
        \cup {[kind |-> "some", list |-> l] : l \in PostingLists}

-----------------------------------------------------------------------------
(* Collaborators and helpers *)

\* types::POSTING_LIST_ALL, the sentinel term of the catch-all posting list
POSTING_LIST_ALL == "POSTING_LIST_ALL"

\* format!("{}_{}_{}_{}", SEGMENT_PREFIX, partition, id, term)
index_key(term) == <<"SEGMENT_PREFIX", "partition", "id", term>>

\* the finite-state index queried whatever the query
query_fst_always(q) == TRUE

\* `if query != ""`: whether the finite-state index is queried
query_fst(q) == q # ""

\* an error swallowed: the construction goes on
Try_ignore(ok, cont) == cont

\* the `?` operator: go on when the step succeeded, return Err otherwise
Try(ok, cont) == IF ok THEN cont ELSE "err"

\* a missing posting list skipped instead of panicking
missing_list_skip(cont) == cont

\* `if list.is_none() { panic!(...) }`
missing_list(cont) == "panicked"

RECURSIVE insert_sorted(_, _)
insert_sorted(x, s) ==
    IF s = <<>> THEN <<x>>
    ELSE IF x <= Head(s) THEN <<x>> \o s
    ELSE <<Head(s)>> \o insert_sorted(x, Tail(s))

\* entry_indices.sort()
RECURSIVE sort(_)
sort(s) == IF s = <<>> THEN <<>> ELSE insert_sorted(Head(s), sort(Tail(s)))

\* &buf[a..b] of a zero-based byte vector; in_bounds is the check the index makes
in_bounds(buf, a, b) == a <= b /\ b <= Len(buf)
slice(buf, a, b) == SubSeq(buf, a + 1, b)

\* util::decode_u64: the bytes as a big-endian unsigned integer
RECURSIVE be_value(_, _)
be_value(bytes, acc) ==
    IF bytes = <<>> THEN acc ELSE be_value(Tail(bytes), acc * 256 + Head(bytes))
decode_u64(bytes) == be_value(bytes, 0)

\* decode_entry: ok is FALSE when &line_buf[..8] is out of range (a panic)
decode_entry(line_buf) ==
    IF ~in_bounds(line_buf, 0, 8)
    THEN [ok |-> FALSE, ts |-> 0, line |-> <<>>]
    ELSE [ok |-> TRUE,
          ts |-> decode_u64(slice(line_buf, 0, 8)),
          line |-> slice(line_buf, 8, Len(line_buf))]

\* a filter that forgets the upper end of the range
in_range_no_upper(ts, s, e) == s <= ts \/ (s = 0 /\ e = 0)

\* the timestamp filter of new()
in_range(ts, s, e) == (s <= ts /\ ts <= e) \/ (s = 0 /\ e = 0)

\* One pass of the body of `for line_offset in entry_indices`.
\*   kind   "skip": the offset was in seen_set (continue);
\*          "panic": a slice index was out of range;
\*          "done": the entry was decoded
\*   seen   seen_set after the pass
\*   pushed the entries pushed by the pass (none or one)
scan_body(buf, seen, line_offset, s, e) ==
    LET read_offset == line_offset
        nothing(k) == [kind |-> k, seen |-> seen, pushed |-> <<>>]
    IN  IF read_offset \in seen THEN nothing("skip")
        ELSE IF ~in_bounds(buf, read_offset, read_offset + 8) THEN nothing("panic")
        ELSE LET entry_len == decode_u64(slice(buf, read_offset, read_offset + 8))
                 read_offset2 == read_offset + 8
             IN  IF ~in_bounds(buf, read_offset2, read_offset2 + entry_len)
                 THEN nothing("panic")
                 ELSE LET ent == decode_entry(slice(buf, read_offset2,
                                                    read_offset2 + entry_len))
                      IN  IF ~ent.ok THEN nothing("panic")
                          ELSE [kind |-> "done",
                                seen |-> seen \cup {read_offset2},
                                pushed |-> IF in_range(ent.ts, s, e)
                                           THEN <<[ts |-> ent.ts, line |-> ent.line]>>
                                           ELSE <<>>]

\* an entry() that holds the cursor on the last entry
entry_clamped ==
    IF entries = <<>> THEN <<>>
    ELSE IF current_index < Len(entries) THEN <<entries[current_index + 1]>>
    ELSE <<entries[Len(entries)]>>

\* entry(): self.entries.get(self.current_index), <<>> for None and <<e>> for Some(e)
entry ==
    IF current_index < Len(entries) THEN <<entries[current_index + 1]>> ELSE <<>>

\* a - b in usize without overflow checks
wrapping_sub(a, b) == (a - b) % (2 ^ UsizeBits)

-----------------------------------------------------------------------------
(* Initial state: the call SegmentIterator::new(id, path, store, query, partition,
   start_ts, end_ts) has been made *)

Init ==
    /\ pc = "new"
    /\ query \in Queries
    /\ \E r \in TsArgs : start_ts = r[1] /\ end_ts = r[2]
    /\ terms = <<>>
    /\ term_pos = 1
    /\ entry_indices = <<>>
    /\ scan_pos = 1
    /\ buffer = <<>>
    /\ seen_set = {}
    /\ entries = <<>>
    /\ current_index = 0
    /\ ret = [op |-> "none", some |-> FALSE]
    /\ index_opened = FALSE
    /\ lookups = <<>>
    /\ src_offsets = <<>>
    /\ decoded = <<>>
    /\ failed = "none"
    /\ absent = FALSE
    /\ next_calls = 0

-----------------------------------------------------------------------------
(* SegmentIterator::new, step by step *)

\* the next step after a posting list was appended, inside or after the term loop
after_fetch(pos) == IF pos <= Len(terms) THEN "fetch" ELSE "sort"

\* unsafe { Set::from_path(partition_path.join(...)) }?
OpenIndex ==
    /\ pc = "new"
    /\ query_fst(query)
    /\ \E ok \in BOOLEAN :
        /\ index_opened' = TRUE
        /\ failed' = IF ok THEN failed ELSE "index_open"
        /\ pc' = Try(ok, "levenshtein")
    /\ UNCHANGED <<query, start_ts, end_ts, terms, term_pos, entry_indices, scan_pos,
                   buffer, seen_set, entries, current_index, ret, lookups,
                   src_offsets, decoded, absent, next_calls>>

\* Levenshtein::new(&query, 2)?
BuildAutomaton ==
    /\ pc = "levenshtein"
    /\ \E ok \in BOOLEAN :
        /\ failed' = IF ok THEN failed ELSE "levenshtein"
        /\ pc' = Try(ok, "search")
    /\ UNCHANGED <<query, start_ts, end_ts, terms, term_pos, entry_indices, scan_pos,
                   buffer, seen_set, entries, current_index, ret, index_opened,
                   lookups, src_offsets, decoded, absent, next_calls>>

\* index_set.search(fuzzy_query).into_stream().into_strs()?
Search ==
    /\ pc = "search"
    /\ \/ /\ failed' = "search"
          /\ pc' = Try(FALSE, "fetch")
          /\ UNCHANGED terms
       \/ \E s \in Streams :
            /\ terms' = s
            /\ pc' = Try(TRUE, IF s = <<>> THEN "sort" ELSE "fetch")
            /\ UNCHANGED failed
    /\ UNCHANGED <<query, start_ts, end_ts, term_pos, entry_indices, scan_pos,
                   buffer, seen_set, entries, current_index, ret, index_opened,
                   lookups, src_offsets, decoded, absent, next_calls>>

\* store.get(index_key)?, the is_none() check, decode_posting_list(..)? and append,
\* for the key of `term`; cont is the step that follows when nothing went wrong
Fetch(term, cont) ==
    \E r \in GetResults :
        /\ lookups' = Append(lookups, index_key(term))
        /\ absent' = (absent \/ r.kind = "none")
        /\ failed' = CASE r.kind = "err" -> "store_get"
                       [] r.kind = "corrupt" -> "decode_posting_list"
                       [] OTHER -> failed
        /\ entry_indices' = IF r.kind = "some" THEN entry_indices \o r.list
                            ELSE entry_indices
        /\ pc' = CASE r.kind = "err" -> Try(FALSE, cont)
                   [] r.kind = "none" -> missing_list(cont)
                   [] r.kind = "corrupt" -> Try(FALSE, cont)
                   [] OTHER -> Try(TRUE, cont)

\* one pass of `for index in indices_stream`
FetchTerm ==
    /\ pc = "fetch"
    /\ term_pos <= Len(terms)
    /\ Fetch(terms[term_pos], after_fetch(term_pos + 1))
    /\ term_pos' = term_pos + 1
    /\ UNCHANGED <<query, start_ts, end_ts, terms, scan_pos, buffer, seen_set,
                   entries, current_index, ret, index_opened, src_offsets, decoded,
                   next_calls>>

\* the else branch: the catch-all posting list
FetchAll ==
    /\ pc = "new"
    /\ ~query_fst(query)
    /\ Fetch(POSTING_LIST_ALL, "sort")
    /\ UNCHANGED <<query, start_ts, end_ts, terms, term_pos, scan_pos, buffer,
                   seen_set, entries, current_index, ret, index_opened, src_offsets,
                   decoded, next_calls>>

\* entry_indices.sort()
Sort ==
    /\ pc = "sort"
    /\ entry_indices' = sort(entry_indices)
    /\ pc' = "open_segment"
    /\ UNCHANGED <<query, start_ts, end_ts, terms, term_pos, scan_pos, buffer,
                   seen_set, entries, current_index, ret, index_opened, lookups,
                   src_offsets, decoded, failed, absent, next_calls>>

\* File::open(partition_path.join(format!("{}.segment", id)))?
OpenSegment ==
    /\ pc = "open_segment"
    /\ \E ok \in BOOLEAN :
        /\ failed' = IF ok THEN failed ELSE "segment_open"
        /\ pc' = Try(ok, "read_segment")
    /\ UNCHANGED <<query, start_ts, end_ts, terms, term_pos, entry_indices, scan_pos,
                   buffer, seen_set, entries, current_index, ret, index_opened,
                   lookups, src_offsets, decoded, absent, next_calls>>

\* segment_file.read_to_end(&mut buffer)?
ReadSegment ==
    /\ pc = "read_segment"
    /\ \/ /\ failed' = "segment_read"
          /\ pc' = Try(FALSE, "scan")
          /\ UNCHANGED buffer
       \/ \E b \in Buffers :
            /\ buffer' = b
            /\ pc' = Try(TRUE, "scan")
            /\ UNCHANGED failed
    /\ UNCHANGED <<query, start_ts, end_ts, terms, term_pos, entry_indices, scan_pos,
                   seen_set, entries, current_index, ret, index_opened, lookups,
                   src_offsets, decoded, absent, next_calls>>

\* one pass of `for line_offset in entry_indices`
Scan ==
    /\ pc = "scan"
    /\ scan_pos <= Len(entry_indices)
    /\ LET off == entry_indices[scan_pos]
           r == scan_body(buffer, seen_set, off, start_ts, end_ts)
       IN  /\ pc' = IF r.kind = "panic" THEN "panicked" ELSE "scan"
           /\ scan_pos' = IF r.kind = "panic" THEN scan_pos ELSE scan_pos + 1
           /\ seen_set' = r.seen
           /\ entries' = entries \o r.pushed
           /\ src_offsets' = IF r.pushed = <<>> THEN src_offsets
                             ELSE Append(src_offsets, off)
           /\ decoded' = IF r.kind = "done" THEN Append(decoded, off) ELSE decoded
    /\ UNCHANGED <<query, start_ts, end_ts, terms, term_pos, entry_indices, buffer,
                   current_index, ret, index_opened, lookups, failed, absent,
                   next_calls>>

\* the loop is over
ScanOver == pc = "scan" /\ scan_pos > Len(entry_indices)

\* Ok(SegmentIterator { entries, current_index: 0, .. }): the locals are dropped
Return ==
    /\ ScanOver
    /\ pc' = "iter"
    /\ current_index' = 0
    /\ terms' = <<>>
    /\ term_pos' = 1
    /\ entry_indices' = <<>>
    /\ scan_pos' = 1
    /\ buffer' = <<>>
    /\ seen_set' = {}
    /\ src_offsets' = <<>>
    /\ decoded' = <<>>
    /\ UNCHANGED <<query, start_ts, end_ts, entries, ret, index_opened, lookups,
                   failed, absent, next_calls>>

-----------------------------------------------------------------------------
(* The Iterator protocol *)

\* entry()
Entry ==
    /\ pc = "iter"
    /\ ret' = [op |-> "entry", some |-> entry # <<>>]
    /\ UNCHANGED <<pc, query, start_ts, end_ts, terms, term_pos, entry_indices,
                   scan_pos, buffer, seen_set, entries, current_index, index_opened,
                   lookups, src_offsets, decoded, failed, absent, next_calls>>

\* next(). `self.entries.len() - 1` on an empty list overflows: a build with
\* overflow checks panics there, a build without them wraps.
NextCall ==
    /\ pc = "iter"
    /\ current_index < MaxIndex
    /\ next_calls' = next_calls + 1
    /\ \E overflow_checks \in BOOLEAN :
        IF Len(entries) < 1 /\ overflow_checks
        THEN /\ pc' = "panicked"
             /\ UNCHANGED <<current_index, ret>>
        ELSE LET last == wrapping_sub(Len(entries), 1)
             IN  /\ current_index' = current_index + 1
                 /\ ret' = [op |-> "next", some |-> ~(current_index >= last)]
                 /\ UNCHANGED pc
    /\ UNCHANGED <<query, start_ts, end_ts, terms, term_pos, entry_indices, scan_pos,
                   buffer, seen_set, entries, index_opened, lookups, src_offsets,
                   decoded, failed, absent>>

Next ==
    \/ OpenIndex
    \/ BuildAutomaton
    \/ Search
    \/ FetchTerm
    \/ FetchAll
    \/ Sort
    \/ OpenSegment
    \/ ReadSegment
    \/ Scan
    \/ Return
    \/ Entry
    \/ NextCall

Spec == Init /\ [][Next]_vars

-----------------------------------------------------------------------------
(* Properties *)

NoDup(s) == \A i, j \in 1..Len(s) : i # j => s[i] # s[j]

Range(s) == {s[i] : i \in 1..Len(s)}

\* decoding the record at byte offset off needs bytes past the end of buf
reads_past_end(buf, off) ==
    \/ off + 8 > Len(buf)
    \/ off + 8 + decode_u64(slice(buf, off, off + 8)) > Len(buf)

\* the record at byte offset off lies inside buf and holds a timestamp
decodable(buf, off) ==
    /\ ~reads_past_end(buf, off)
    /\ decode_u64(slice(buf, off, off + 8)) >= 8

\* the timestamp of the record at byte offset off
ts_at(buf, off) == decode_u64(slice(buf, off + 8, off + 16))

\* the key looked up for the empty query
AllKey == index_key(POSTING_LIST_ALL)

\* C1: every distinct offset of the fetched posting lists contributes at most one
\* entry to the entries list, and no offset is decoded a second time.
C1_Dedup == NoDup(src_offsets) /\ NoDup(decoded)

\* C2: on an iterator whose entries list is empty, entry() returns none, and the
\* first next() does not crash and returns none, not continue.
C2_EmptyResultSafe ==
    (entries = <<>> /\ next_calls <= 1 /\ (pc = "iter" \/ next_calls = 1))
        => /\ pc = "iter"
           /\ ret.op \in {"entry", "next"} => ~ret.some

\* C3: when decoding the record at a posting-list offset would read past the end
\* of the segment buffer, new() returns a corruption error and does not panic.
C3_OutOfBoundsIsError ==
    [][(/\ pc = "scan"
        /\ scan_pos <= Len(entry_indices)
        /\ entry_indices[scan_pos] \notin seen_set
        /\ reads_past_end(buffer, entry_indices[scan_pos]))
            => (pc' = "err" /\ failed' # "none")]_vars

\* C4: every entry of the entries list has start_ts <= ts <= end_ts, unless
\* start_ts = end_ts = 0.
C4_FilterSound ==
    \A i \in 1..Len(entries) :
        \/ start_ts <= entries[i].ts /\ entries[i].ts <= end_ts
        \/ start_ts = 0 /\ end_ts = 0

\* C4 witness: a range was given, one decoded entry was kept and another dropped.
C4_Witness ==
    /\ ScanOver
    /\ start_ts # 0
    /\ entries # <<>>
    /\ Len(decoded) > Len(entries)

\* C5: once next() has been called at least len(entries) times on the iterator,
\* entry() returns none, and keeps returning none after any further next() calls.
C5_Exhaustion ==
    (pc = "iter" /\ next_calls >= Len(entries))
        => /\ entry = <<>>
           /\ ret.op = "entry" => ~ret.some

\* C5 witness: a list of two entries, four next() calls, then an entry() call.
C5_Witness ==
    /\ pc = "iter"
    /\ Len(entries) = 2
    /\ entries[1] # entries[2]
    /\ next_calls = 4
    /\ ret.op = "entry"

\* C6: once store.get has reported a key absent, the construction has panicked:
\* no iterator is produced and the construction does not go on without the term.
C6_MissingIsFatal == absent => pc = "panicked"

\* C6 witness: the second resolved term is missing after the first one's posting
\* list was fetched.
C6_Witness ==
    /\ absent
    /\ pc = "panicked"
    /\ Len(lookups) = 2
    /\ entry_indices # <<>>

\* C7: when a fallible step of new() has failed, new() has returned Err and there
\* is no iterator; an iterator exists only if no step failed.
C7_AllOrNothing ==
    /\ failed # "none" => pc = "err"
    /\ (pc = "iter" \/ ScanOver) => failed = "none"

\* C7 witness: the segment file could not be read after offsets had been collected.
C7_Witness ==
    /\ pc = "err"
    /\ failed = "segment_read"
    /\ entry_indices # <<>>

\* C8: with an empty query the only store lookup is the one of the catch-all key
\* and the term-index file is never opened; with a non-empty query the term
\* index is opened before any lookup and the keys looked up are those of the
\* streamed terms (compared while new() still holds the stream), never the
\* catch-all key.
C8_SentinelAllQuery ==
    /\ query = "" =>
        /\ ~index_opened
        /\ lookups = IF pc = "new" THEN <<>> ELSE <<AllKey>>
    /\ query # "" =>
        /\ pc # "new" => index_opened
        /\ AllKey \notin Range(lookups)
        /\ (pc # "iter" /\ next_calls = 0) =>
            lookups = [i \in 1..(term_pos - 1) |-> index_key(terms[i])]

\* C8 witness: an empty query gave an iterator with an entry.
C8_Witness ==
    /\ query = ""
    /\ pc = "iter"
    /\ lookups = <<AllKey>>
    /\ entries # <<>>

\* C9: a next() call adds one to current_index, leaves entries alone, returns none
\* iff the cursor was at or beyond the last valid index (current_index >= len - 1),
\* and returns continue iff entry() right after it returns an entry.
C9_NextRule ==
    [][(pc = "iter" /\ next_calls' = next_calls + 1)
            => /\ pc' = "iter"
               /\ current_index' = current_index + 1
               /\ entries' = entries
               /\ ret'.op = "next"
               /\ ret'.some = ~(current_index >= Len(entries) - 1)
               /\ ret'.some <=> (entry' # <<>>)]_vars

\* C10: after the scan, every fetched offset whose record passes the timestamp
\* filter has its entry in the entries list.
C10_FilterComplete ==
    ScanOver =>
        \A i \in 1..Len(entry_indices) :
            LET off == entry_indices[i] IN
            (/\ decodable(buffer, off)
             /\ \/ start_ts <= ts_at(buffer, off) /\ ts_at(buffer, off) <= end_ts
                \/ start_ts = 0 /\ end_ts = 0)
                => off \in Range(src_offsets)

====
